---- MODULE Spec2Model ----
(***************************************************************************)
(* Waveform acquisition (capture_waveform) and capture persistence         *)
(* (save_waveform_capture / load_waveform_capture) of Rigol/DS1104ZPLUS.py *)
(* over the transport owned by RigolInstrument (Rigol/RIGOL.py).           *)
(*                                                                         *)
(* Bytes and characters are their integer codes (ASCII for text), so one   *)
(* reply stream can carry the text header and the binary payload.          *)
(* Floats are exact rationals <<num, den>>: rounding is not modelled.      *)
(***************************************************************************)
EXTENDS Integers, Sequences, FiniteSets, TLC

VARIABLES
    timeout,          \* osc.inst.timeout, the transport's read timeout (ms)
    stream,           \* bytes the instrument has queued for raw reads
    preambleReply,    \* text the instrument answers to ':WAV:PRE?'
    blockReply,       \* bytes the instrument queues on ':WAV:DATA?'
    ops,              \* per call: transport operations issued so far, in order
    pc,               \* per call: position in capture_waveform
    loc,              \* per call: the locals of capture_waveform
    entryTimeout,     \* per call: timeout in effect when the call started
    timeout0,         \* timeout in effect before any call started
    fs,               \* file system: path -> file content (or NoFile)
    saved,            \* last capture handed to a save that succeeded, per path
    loaded,           \* outcome of the last load_waveform_capture
    calib             \* outcome of the last stand-alone calibration

vars == <<timeout, stream, preambleReply, blockReply, ops, pc, loc,
          entryTimeout, timeout0, fs, saved, loaded, calib>>

-----------------------------------------------------------------------------
(* Bounds of the model *)

\* longest payload an instrument reply declares and carries
MaxPayload == 2
\* longest raw byte sequence handed to the stand-alone calibration
MaxCalibLen == 3
\* most samples in a capture handed to save_waveform_capture
MaxSaveLen == 2

-----------------------------------------------------------------------------
(* Python text primitives: str.strip, int(), float(), str.split *)

Min(a, b) == IF a < b THEN a ELSE b
Max(a, b) == IF a > b THEN a ELSE b

\* ASCII whitespace as str.strip() and int()/float() see it
IsSpace(b) == b \in {9, 10, 11, 12, 13, 28, 29, 30, 31, 32}
IsDigit(b) == b \in 48..57
IsSign(b) == b \in {43, 45}

\* s[a..b] with Python's slice clamping (1-based, inclusive)
Slice(s, a, b) == SubSeq(s, Max(a, 1), Min(b, Len(s)))

RECURSIVE LStrip(_)
LStrip(s) == IF s # <<>> /\ IsSpace(Head(s)) THEN LStrip(Tail(s)) ELSE s

RECURSIVE RStrip(_)
RStrip(s) ==
    IF s # <<>> /\ IsSpace(s[Len(s)]) THEN RStrip(SubSeq(s, 1, Len(s) - 1)) ELSE s

Strip(s) == RStrip(LStrip(s))

\* digits with single underscores between digits (PEP 515), non-empty
DigitGroupOK(s) ==
    /\ s # <<>>
    /\ IsDigit(s[1])
    /\ IsDigit(s[Len(s)])
    /\ \A i \in 1..Len(s) : IsDigit(s[i]) \/ s[i] = 95
    /\ \A i \in 1..(Len(s) - 1) : ~(s[i] = 95 /\ s[i + 1] = 95)

RECURSIVE DigitsOnly(_)
DigitsOnly(s) ==
    IF s = <<>> THEN <<>>
    ELSE IF IsDigit(Head(s)) THEN <<Head(s)>> \o DigitsOnly(Tail(s))
    ELSE DigitsOnly(Tail(s))

RECURSIVE DigitsVal(_)
DigitsVal(s) ==
    IF s = <<>> THEN 0
    ELSE 10 * DigitsVal(SubSeq(s, 1, Len(s) - 1)) + (s[Len(s)] - 48)

RECURSIVE Pow10(_)
Pow10(n) == IF n <= 0 THEN 1 ELSE 10 * Pow10(n - 1)

\* index of the first element of s in set S (from i on), or 0
RECURSIVE FirstIn(_, _, _)
FirstIn(s, S, i) ==
    IF i > Len(s) THEN 0 ELSE IF s[i] \in S THEN i ELSE FirstIn(s, S, i + 1)

\* the parts of s before and after position i; i = 0 means "no separator"
Before(s, i) == IF i = 0 THEN s ELSE SubSeq(s, 1, i - 1)
After(s, i) == IF i = 0 THEN <<>> ELSE SubSeq(s, i + 1, Len(s))

\* an optional leading sign
SignOf(t) == IF t # <<>> /\ t[1] = 45 THEN -1 ELSE 1
Unsigned(t) == IF t # <<>> /\ IsSign(t[1]) THEN Tail(t) ELSE t

PyIntBody(sgn, body) ==
    IF DigitGroupOK(body)
    THEN [ok |-> TRUE, val |-> sgn * DigitsVal(DigitsOnly(body))]
    ELSE [ok |-> FALSE, val |-> 0]

\* int(text): optional surrounding whitespace, optional sign, digit group
PyInt(s) == PyIntBody(SignOf(Strip(s)), Unsigned(Strip(s)))

\* mantissa = digits ['.' [digits]] | '.' digits
MantissaOK(hasDot, ip, fp) ==
    IF hasDot
    THEN /\ ip = <<>> \/ DigitGroupOK(ip)
         /\ fp = <<>> \/ DigitGroupOK(fp)
         /\ ip # <<>> \/ fp # <<>>
    ELSE DigitGroupOK(ip)

\* exponent = [sign] digits, when an 'e' or 'E' is present
ExponentOK(hasE, expo) == ~hasE \/ DigitGroupOK(Unsigned(expo))
ExponentVal(hasE, expo) ==
    IF hasE THEN SignOf(expo) * DigitsVal(DigitsOnly(Unsigned(expo))) ELSE 0

\* sgn * digits * 10^(-scale) as num / den
FloatValue(sgn, digits, scale) ==
    [ok |-> TRUE,
     num |-> sgn * DigitsVal(digits) * Pow10(-scale),
     den |-> Pow10(scale)]

PyFloatParts(sgn, hasDot, ip, fp, hasE, expo) ==
    IF MantissaOK(hasDot, ip, fp) /\ ExponentOK(hasE, expo)
    THEN FloatValue(sgn, DigitsOnly(ip) \o DigitsOnly(fp),
                    Len(DigitsOnly(fp)) - ExponentVal(hasE, expo))
    ELSE [ok |-> FALSE, num |-> 0, den |-> 1]

PyFloatMant(sgn, mant, hasE, expo) ==
    PyFloatParts(sgn, FirstIn(mant, {46}, 1) # 0,
                 Before(mant, FirstIn(mant, {46}, 1)),
                 After(mant, FirstIn(mant, {46}, 1)), hasE, expo)

PyFloatBody(sgn, body) ==
    PyFloatMant(sgn, Before(body, FirstIn(body, {69, 101}, 1)),
                FirstIn(body, {69, 101}, 1) # 0,
                After(body, FirstIn(body, {69, 101}, 1)))

\* float(text) for decimal literals: optional surrounding whitespace,
\* [sign] mantissa [e [sign] digits].  The value is num / den.
PyFloat(s) == PyFloatBody(SignOf(Strip(s)), Unsigned(Strip(s)))

\* text.split(','): always at least one field
RECURSIVE Split(_)
Split(s) ==
    IF FirstIn(s, {44}, 1) = 0 THEN <<s>>
    ELSE <<Before(s, FirstIn(s, {44}, 1))>> \o Split(After(s, FirstIn(s, {44}, 1)))

-----------------------------------------------------------------------------
(* Instrument replies the model draws from *)

Procs == {1, 2}

\* the n-digit, zero padded decimal text of v
RECURSIVE LenField(_, _)
LenField(v, n) ==
    IF n = 0 THEN <<>> ELSE LenField(v \div 10, n - 1) \o <<48 + (v % 10)>>

\* an IEEE-488.2 definite-length block as the instrument sends it
Block(marker, d, field, payload, trailer) ==
    <<marker, 48 + d>> \o field \o payload \o trailer

SampleBytes == {0, 200}
Payloads == UNION {[1..n -> SampleBytes] : n \in 0..MaxPayload}
DefaultPayload(n) == [i \in 1..n |-> 200]
Trailers == {<<>>, <<10>>}
\* '+', '-', ' ', '_'
NonDigits == {43, 45, 32, 95}

WellFormedBlocks ==
    {Block(35, d, LenField(Len(pl), d), pl, t) :
        d \in 0..9, pl \in Payloads, t \in Trailers}

BadFieldBlocks ==
    UNION {{Block(35, d, [LenField(n, d) EXCEPT ![j] = c], DefaultPayload(n), <<>>) :
               j \in 1..d, c \in NonDigits} :
           d \in 1..9, n \in 0..MaxPayload}

\* a wrong first byte ('$' or '0'), a non-digit count byte ('x'), no reply
BadMarkerBlocks ==
    {Block(m, 9, LenField(n, 9), DefaultPayload(n), <<>>) :
        m \in {36, 48}, n \in 0..MaxPayload}
    \cup {<<35, 120>> \o LenField(1, 9) \o <<200>>, <<>>}

BlockReplies == WellFormedBlocks \cup BadFieldBlocks \cup BadMarkerBlocks
DefaultBlock == Block(35, 9, LenField(2, 9), <<0, 200>>, <<10>>)

RECURSIVE Join(_)
Join(fields) ==
    IF Len(fields) = 0 THEN <<>>
    ELSE IF Len(fields) = 1 THEN fields[1]
    ELSE fields[1] \o <<44>> \o Join(Tail(fields))

\* "0,0,3,1,2e-3,-1.5,0,4e-2,0,127,x": format, type, points, count,
\* xincrement, xorigin, xreference, yincrement, yorigin, yreference, extra
GoodFields ==
    << <<48>>, <<48>>, <<51>>, <<49>>, <<50, 101, 45, 51>>, <<45, 49, 46, 53>>,
       <<48>>, <<52, 101, 45, 50>>, <<48>>, <<49, 50, 55>>, <<120>> >>
\* "", "x", "1.5", " 7 "
BadTokens == {<<>>, <<120>>, <<49, 46, 53>>, <<32, 55, 32>>}
GoodPreamble == Join(SubSeq(GoodFields, 1, 10))

PreambleReplies ==
    {Join(SubSeq(GoodFields, 1, k)) : k \in 0..11}
    \cup {Join([SubSeq(GoodFields, 1, 10) EXCEPT ![i] = tok]) :
             i \in 1..10, tok \in BadTokens}

-----------------------------------------------------------------------------
(* capture_waveform *)

\* read timeout set by RigolInstrument.__init__
DefaultTimeout == 5000
\* read timeout capture_waveform sets for the binary transfer
ExtendedTimeout == 30000
\* size of the header read
HeaderSize == 11

\* values osc.inst.timeout may hold when a call starts: the constructor's,
\* or one the caller assigned (the attribute is public)
InitialTimeouts == {DefaultTimeout, 10000}

NoFloat == [num |-> 0, den |-> 1]
NoPreamble ==
    [points |-> 0, x_increment |-> NoFloat, x_origin |-> NoFloat,
     y_increment |-> NoFloat, y_origin |-> NoFloat, y_reference |-> 0]
NoResult == [time_axis |-> <<>>, y_data |-> <<>>, preamble |-> NoPreamble]

InitLocals ==
    [original_timeout |-> 0, header |-> <<>>, num_digits |-> 0,
     data_length |-> 0, raw_bytes |-> <<>>, pre |-> NoPreamble,
     exc |-> "none", result |-> NoResult]

Op(kind, cmd, size) == [op |-> kind, cmd |-> cmd, size |-> size]

\* first failure of the six field conversions, in source order
FieldErr(values, i, kind) ==
    IF Len(values) <= i THEN "IndexError"
    ELSE IF kind = "int" /\ ~PyInt(values[i + 1]).ok THEN "ValueError"
    ELSE IF kind = "float" /\ ~PyFloat(values[i + 1]).ok THEN "ValueError"
    ELSE "none"

FloatOf(values, i) ==
    [num |-> PyFloat(values[i + 1]).num, den |-> PyFloat(values[i + 1]).den]

FirstErr(errs) ==
    IF \A i \in 1..Len(errs) : errs[i] = "none" THEN "none"
    ELSE errs[CHOOSE i \in 1..Len(errs) :
                 errs[i] # "none" /\ \A j \in 1..(i - 1) : errs[j] = "none"]

\* lines 20-25, in order: points, x_increment, x_origin, y_increment,
\* y_origin, y_reference
PreambleErr(values) ==
    FirstErr(<<FieldErr(values, 2, "int"), FieldErr(values, 4, "float"),
               FieldErr(values, 5, "float"), FieldErr(values, 7, "float"),
               FieldErr(values, 8, "float"), FieldErr(values, 9, "int")>>)

PreambleOf(values) ==
    [points |-> PyInt(values[3]).val,
     x_increment |-> FloatOf(values, 4),
     x_origin |-> FloatOf(values, 5),
     y_increment |-> FloatOf(values, 7),
     y_origin |-> FloatOf(values, 8),
     y_reference |-> PyInt(values[10]).val]

\* ParsePreambleValues with a missing field silently defaulted
ParsePreambleDefaulting(values, exc) ==
    IF exc = "IndexError" THEN [exc |-> "none", pre |-> NoPreamble]
    ELSE IF exc # "none" THEN [exc |-> exc, pre |-> NoPreamble]
    ELSE [exc |-> "none", pre |-> PreambleOf(values)]

ParsePreambleValues(values, exc) ==
    IF exc # "none" THEN [exc |-> exc, pre |-> NoPreamble]
    ELSE [exc |-> "none", pre |-> PreambleOf(values)]

ParsePreamble(reply) == ParsePreambleValues(Split(reply), PreambleErr(Split(reply)))

RECURSIVE Sum(_)
Sum(s) == IF s = <<>> THEN 0 ELSE Head(s) + Sum(Tail(s))

\* CalibrateVoltage centred on the preamble's y_reference instead of the mean
CalibrateVoltageByReference(bytes, pre) ==
    [i \in 1..Len(bytes) |->
        [num |-> Len(bytes) * (bytes[i] - pre.y_reference) * pre.y_increment.num,
         den |-> Len(bytes) * pre.y_increment.den]]

\* (byte_array - np.mean(byte_array)) * y_increment, each value num / den
CalibrateVoltage(bytes, pre) ==
    [i \in 1..Len(bytes) |->
        [num |-> (Len(bytes) * bytes[i] - Sum(bytes)) * pre.y_increment.num,
         den |-> Len(bytes) * pre.y_increment.den]]

\* np.arange(len(y_data)) * x_increment + x_origin
TimeAxis(n, pre) ==
    [i \in 1..n |->
        [num |-> (i - 1) * pre.x_increment.num * pre.x_origin.den
                    + pre.x_origin.num * pre.x_increment.den,
         den |-> pre.x_increment.den * pre.x_origin.den]]

-----------------------------------------------------------------------------
(* The transport (pyvisa resource behind osc.inst) *)

\* Outcomes of inst.read_raw(n) on the queued bytes: the read raises (a
\* timeout or link error), or it delivers the next k bytes, k at most n and
\* at most what is queued.  A short delivery is not an error of the read.
ReadOutcomes(n) ==
    {[raised |-> TRUE, k |-> 0]}
    \cup {[raised |-> FALSE, k |-> k] : k \in 0..Min(Max(n, 0), Len(stream))}

persistVars == <<fs, saved, loaded, calib>>
replyVars == <<preambleReply, blockReply, timeout0>>

Goto(p, label) == pc' = [pc EXCEPT ![p] = label]

\* osc.write(cmd): the command goes out, in issue order
Issue(p, o) == ops' = [ops EXCEPT ![p] = Append(@, o)]
Write(p, cmd) == Issue(p, Op("write", cmd, 0))

-----------------------------------------------------------------------------
(* capture_waveform, one action per transport operation or statement group *)

\* line 9: osc.write(f':WAV:SOUR {channel}')
WriteSource(p) ==
    /\ pc[p] = "start"
    /\ Write(p, ":WAV:SOUR")
    /\ entryTimeout' = [entryTimeout EXCEPT ![p] = timeout]
    /\ Goto(p, "mode")
    /\ UNCHANGED <<timeout, stream, loc, replyVars, persistVars>>

\* line 11: osc.write(':WAV:MODE NORM')
WriteMode(p) ==
    /\ pc[p] = "mode"
    /\ Write(p, ":WAV:MODE NORM")
    /\ Goto(p, "form")
    /\ UNCHANGED <<timeout, stream, loc, entryTimeout, replyVars, persistVars>>

\* line 13: osc.write(':WAV:FORM BYTE')
WriteFormat(p) ==
    /\ pc[p] = "form"
    /\ Write(p, ":WAV:FORM BYTE")
    /\ Goto(p, "pre")
    /\ UNCHANGED <<timeout, stream, loc, entryTimeout, replyVars, persistVars>>

\* lines 17-25: query the preamble and convert its six fields; a missing
\* field (IndexError) or a failed conversion (ValueError) leaves the function
QueryPreamble(p) ==
    /\ pc[p] = "pre"
    /\ Issue(p, Op("query", ":WAV:PRE?", 0))
    /\ loc' = [loc EXCEPT ![p].pre = ParsePreamble(preambleReply).pre,
                          ![p].exc = ParsePreamble(preambleReply).exc]
    /\ Goto(p, IF ParsePreamble(preambleReply).exc = "none"
               THEN "query" ELSE "raised")
    /\ UNCHANGED <<timeout, stream, entryTimeout, replyVars, persistVars>>

\* WriteDataQuery issued with osc.query, which reads right after writing
WriteDataQueryAsQuery(p) ==
    /\ pc[p] = "query"
    /\ Issue(p, Op("query", ":WAV:DATA?", 0))
    /\ stream' = <<>>
    /\ Goto(p, "save")
    /\ UNCHANGED <<timeout, loc, entryTimeout, replyVars, persistVars>>

\* line 31: osc.write(':WAV:DATA?'); the instrument queues its block reply
WriteDataQuery(p) ==
    /\ pc[p] = "query"
    /\ Write(p, ":WAV:DATA?")
    /\ stream' = stream \o blockReply
    /\ Goto(p, "save")
    /\ UNCHANGED <<timeout, loc, entryTimeout, replyVars, persistVars>>

\* line 35: original_timeout = osc.inst.timeout
SaveTimeout(p) ==
    /\ pc[p] = "save"
    /\ loc' = [loc EXCEPT ![p].original_timeout = timeout]
    /\ Goto(p, "extend")
    /\ UNCHANGED <<timeout, stream, ops, entryTimeout, replyVars, persistVars>>

\* line 36: osc.inst.timeout = 30000
ExtendTimeout(p) ==
    /\ pc[p] = "extend"
    /\ timeout' = ExtendedTimeout
    /\ Goto(p, "header")
    /\ UNCHANGED <<stream, ops, loc, entryTimeout, replyVars, persistVars>>

\* line 41: header = osc.inst.read_raw(11)
ReadHeader(p) ==
    /\ pc[p] = "header"
    /\ Issue(p, Op("read_raw", "", HeaderSize))
    /\ \E o \in ReadOutcomes(HeaderSize) :
          IF o.raised
          THEN /\ loc' = [loc EXCEPT ![p].exc = "VisaIOError"]
               /\ Goto(p, "finally")
               /\ UNCHANGED stream
          ELSE /\ loc' = [loc EXCEPT ![p].header = SubSeq(stream, 1, o.k)]
               /\ stream' = SubSeq(stream, o.k + 1, Len(stream))
               /\ Goto(p, "parse")
    /\ UNCHANGED <<timeout, entryTimeout, replyVars, persistVars>>

\* lines 43-49: marker check, num_digits = int(header[1:2]),
\* data_length = int(header[2:2+num_digits].decode('utf-8'))
HeaderFail(exc, nd) == [exc |-> exc, num_digits |-> nd, data_length |-> 0]

HeaderLength(nd, region) ==
    IF \E i \in 1..Len(region) : region[i] >= 128
    THEN HeaderFail("UnicodeDecodeError", nd)
    ELSE IF ~PyInt(region).ok THEN HeaderFail("ValueError", nd)
    ELSE [exc |-> "none", num_digits |-> nd, data_length |-> PyInt(region).val]

HeaderDigits(header, nd) ==
    IF ~nd.ok THEN HeaderFail("ValueError", 0)
    ELSE HeaderLength(nd.val, Slice(header, 3, 2 + nd.val))

HeaderParse(header) ==
    IF Slice(header, 1, 1) # <<35>> THEN HeaderFail("ValueError", 0)
    ELSE HeaderDigits(header, PyInt(Slice(header, 2, 2)))

ParseHeader(p) ==
    /\ pc[p] = "parse"
    /\ loc' = [loc EXCEPT ![p].exc = HeaderParse(loc[p].header).exc,
                          ![p].num_digits = HeaderParse(loc[p].header).num_digits,
                          ![p].data_length = HeaderParse(loc[p].header).data_length]
    /\ Goto(p, IF HeaderParse(loc[p].header).exc = "none"
               THEN "payload" ELSE "finally")
    /\ UNCHANGED <<timeout, stream, ops, entryTimeout, replyVars, persistVars>>

\* line 54: raw_bytes = osc.inst.read_raw(data_length)
ReadPayload(p) ==
    /\ pc[p] = "payload"
    /\ Issue(p, Op("read_raw", "", loc[p].data_length))
    /\ \E o \in ReadOutcomes(loc[p].data_length) :
          IF o.raised
          THEN /\ loc' = [loc EXCEPT ![p].exc = "VisaIOError"]
               /\ Goto(p, "finally")
               /\ UNCHANGED stream
          ELSE /\ loc' = [loc EXCEPT ![p].raw_bytes = SubSeq(stream, 1, o.k)]
               /\ stream' = SubSeq(stream, o.k + 1, Len(stream))
               /\ Goto(p, "calibrate")
    /\ UNCHANGED <<timeout, entryTimeout, replyVars, persistVars>>

\* lines 58-74: the returned triple, built from the bytes that were read
CaptureResult(bytes, pre) ==
    [time_axis |-> TimeAxis(Len(CalibrateVoltage(bytes, pre)), pre),
     y_data |-> CalibrateVoltage(bytes, pre),
     preamble |-> pre]

Calibrate(p) ==
    /\ pc[p] = "calibrate"
    /\ loc' = [loc EXCEPT ![p].result = CaptureResult(loc[p].raw_bytes, loc[p].pre)]
    /\ Goto(p, "finally")
    /\ UNCHANGED <<timeout, stream, ops, entryTimeout, replyVars, persistVars>>

\* Finally with the restore written after the try block instead of in a
\* finally clause: an exception skips it
FinallyRestoreOnReturnOnly(p) ==
    /\ pc[p] = "finally"
    /\ timeout' = IF loc[p].exc = "none" THEN loc[p].original_timeout ELSE timeout
    /\ Goto(p, IF loc[p].exc = "none" THEN "returned" ELSE "raised")
    /\ UNCHANGED <<stream, ops, loc, entryTimeout, replyVars, persistVars>>

\* Finally without the restore: the extended timeout stays in place
FinallyWithoutRestore(p) ==
    /\ pc[p] = "finally"
    /\ Goto(p, IF loc[p].exc = "none" THEN "returned" ELSE "raised")
    /\ UNCHANGED <<timeout, stream, ops, loc, entryTimeout, replyVars, persistVars>>

\* lines 76-77: finally: osc.inst.timeout = original_timeout, then the
\* return or the pending exception leaves the function
Finally(p) ==
    /\ pc[p] = "finally"
    /\ timeout' = loc[p].original_timeout
    /\ Goto(p, IF loc[p].exc = "none" THEN "returned" ELSE "raised")
    /\ UNCHANGED <<stream, ops, loc, entryTimeout, replyVars, persistVars>>

Step(p) ==
    \/ WriteSource(p)
    \/ WriteMode(p)
    \/ WriteFormat(p)
    \/ QueryPreamble(p)
    \/ WriteDataQuery(p)
    \/ SaveTimeout(p)
    \/ ExtendTimeout(p)
    \/ ReadHeader(p)
    \/ ParseHeader(p)
    \/ ReadPayload(p)
    \/ Calibrate(p)
    \/ Finally(p)

PersistIdle ==
    /\ fs = <<>>
    /\ saved = <<>>
    /\ loaded = <<>>
    /\ calib = <<>>

\* one capture_waveform call on a freshly opened instrument
Init ==
    /\ timeout \in InitialTimeouts
    /\ timeout0 = timeout
    /\ stream = <<>>
    /\ \/ preambleReply \in PreambleReplies /\ blockReply = DefaultBlock
       \/ preambleReply = GoodPreamble /\ blockReply \in BlockReplies
    /\ ops = [p \in Procs |-> <<>>]
    /\ pc = [p \in Procs |-> "start"]
    /\ loc = [p \in Procs |-> InitLocals]
    /\ entryTimeout = [p \in Procs |-> 0]
    /\ PersistIdle

Next == Step(1)

Spec == Init /\ [][Next]_vars

\* two capture_waveform calls on the same transport, interleaved at
\* statement granularity (two threads sharing one RigolInstrument)
ConcBlocks == {Block(35, 1, LenField(1, 1), <<200>>, <<>>), <<36>>}
ConcPreambles == {GoodPreamble, Join(SubSeq(GoodFields, 1, 9))}

InitConc ==
    /\ timeout \in InitialTimeouts
    /\ timeout0 = timeout
    /\ stream = <<>>
    /\ preambleReply \in ConcPreambles
    /\ blockReply \in ConcBlocks
    /\ ops = [p \in Procs |-> <<>>]
    /\ pc = [p \in Procs |-> "start"]
    /\ loc = [p \in Procs |-> InitLocals]
    /\ entryTimeout = [p \in Procs |-> 0]
    /\ PersistIdle

NextConc == \E p \in Procs : Step(p)

SpecConc == InitConc /\ [][NextConc]_vars

-----------------------------------------------------------------------------
(* Calibration on its own: lines 58-62 applied to chosen raw bytes *)

CaptureIdle ==
    /\ timeout = DefaultTimeout
    /\ timeout0 = DefaultTimeout
    /\ stream = <<>>
    /\ preambleReply = GoodPreamble
    /\ blockReply = DefaultBlock
    /\ ops = [p \in Procs |-> <<>>]
    /\ pc = [p \in Procs |-> "start"]
    /\ loc = [p \in Procs |-> InitLocals]
    /\ entryTimeout = [p \in Procs |-> 0]

captureVars == <<timeout, stream, ops, pc, loc, entryTimeout, replyVars>>

CalibBytes == {0, 1, 127, 255}
CalibInputs == UNION {[1..n -> CalibBytes] : n \in 0..MaxCalibLen}
Shifts == {-127, -1, 1, 128}
\* y_increment 0.04 or -1, y_origin 0 or -50, y_reference 127 or 0
CalibPreambles ==
    {[NoPreamble EXCEPT !.y_increment = yi, !.y_origin = yo, !.y_reference = yr] :
        yi \in {[num |-> 4, den |-> 100], [num |-> -1, den |-> 1]},
        yo \in {[num |-> 0, den |-> 1], [num |-> -50, den |-> 1]},
        yr \in {127, 0}}

Shifted(bytes, k) == [i \in 1..Len(bytes) |-> bytes[i] + k]
InByteRange(bytes) == \A i \in 1..Len(bytes) : bytes[i] \in 0..255

InitCalib ==
    /\ CaptureIdle
    /\ fs = <<>> /\ saved = <<>> /\ loaded = <<>>
    /\ \E b \in CalibInputs, k \in Shifts, pre \in CalibPreambles,
          other \in CalibPreambles :
          /\ InByteRange(Shifted(b, k))
          /\ other.y_increment = pre.y_increment
          /\ calib = [done |-> FALSE, bytes |-> b, shift |-> k, pre |-> pre,
                      other |-> other, y |-> <<>>, yShifted |-> <<>>,
                      yOther |-> <<>>, t |-> <<>>]

\* the calibration of the bytes, of the shifted bytes, and of the bytes under
\* a preamble that differs in y_origin and y_reference only
CalibrateAlone ==
    /\ ~calib.done
    /\ calib' = [calib EXCEPT
                    !.done = TRUE,
                    !.y = CaptureResult(calib.bytes, calib.pre).y_data,
                    !.t = CaptureResult(calib.bytes, calib.pre).time_axis,
                    !.yShifted =
                        CaptureResult(Shifted(calib.bytes, calib.shift), calib.pre).y_data,
                    !.yOther = CaptureResult(calib.bytes, calib.other).y_data]
    /\ UNCHANGED <<captureVars, fs, saved, loaded>>

NextCalib == CalibrateAlone

SpecCalib == InitCalib /\ [][NextCalib]_vars

-----------------------------------------------------------------------------
(* Python values and their JSON form (json.dump / json.load) *)

\* Python values are tagged: <<"none">>, <<"bool", b>>, <<"int", i>>,
\* <<"float", id>>, <<"str", s>>, <<"tuple", items>>, <<"list", items>>,
\* <<"dict", f>> with f a function on string keys.  A float is named by an
\* integer: repr() and float() are inverse on finite doubles.
PyNone == <<"none">>
PyIntV(i) == <<"int", i>>
PyFloatV(x) == <<"float", x>>
PyStr(t) == <<"str", t>>
PyTuple(items) == <<"tuple", items>>
PyList(items) == <<"list", items>>
PyDict(f) == <<"dict", f>>
EmptyDict == PyDict(<<>>)

\* bool(v) for the values `metadata or {}` can meet
Truthy(v) ==
    CASE v[1] = "none" -> FALSE
      [] v[1] = "dict" -> DOMAIN v[2] # {}
      [] v[1] \in {"tuple", "list"} -> Len(v[2]) > 0
      [] v[1] = "str" -> v[2] # ""
      [] v[1] \in {"int", "float"} -> v[2] # 0
      [] OTHER -> v[2]

\* json.dump: the JSON document written for a Python value
RECURSIVE JsonDump(_)
JsonDump(v) ==
    CASE v[1] = "none" -> <<"null">>
      [] v[1] = "bool" -> IF v[2] THEN <<"true">> ELSE <<"false">>
      [] v[1] = "int" -> <<"integer", v[2]>>
      [] v[1] = "float" -> <<"real", v[2]>>
      [] v[1] = "str" -> <<"string", v[2]>>
      [] v[1] \in {"tuple", "list"} ->
            <<"array", [i \in 1..Len(v[2]) |-> JsonDump(v[2][i])]>>
      [] OTHER -> <<"object", [k \in DOMAIN v[2] |-> JsonDump(v[2][k])]>>

\* json.load: the Python value read from a JSON document
RECURSIVE JsonLoad(_)
JsonLoad(j) ==
    CASE j[1] = "null" -> PyNone
      [] j[1] = "true" -> <<"bool", TRUE>>
      [] j[1] = "false" -> <<"bool", FALSE>>
      [] j[1] = "integer" -> PyIntV(j[2])
      [] j[1] = "real" -> PyFloatV(j[2])
      [] j[1] = "string" -> PyStr(j[2])
      [] j[1] = "array" -> PyList([i \in 1..Len(j[2]) |-> JsonLoad(j[2][i])])
      [] OTHER -> PyDict([k \in DOMAIN j[2] |-> JsonLoad(j[2][k])])

-----------------------------------------------------------------------------
(* save_waveform_capture / load_waveform_capture *)

\* A path is its file name split at the dots: "cap.v1.npz" is
\* <<"cap", "v1", "npz">>.  Path.with_suffix replaces the last suffix, or
\* appends one when the name has none; with_suffix('') drops it.
WithSuffix(path, suffix) ==
    IF suffix = ""
    THEN IF Len(path) > 1 THEN SubSeq(path, 1, Len(path) - 1) ELSE path
    ELSE IF Len(path) > 1 THEN SubSeq(path, 1, Len(path) - 1) \o <<suffix>>
    ELSE path \o <<suffix>>

\* lines 108-110 and 157-160
NpzPath(path) == WithSuffix(WithSuffix(path, ""), "npz")
JsonPath(path) == WithSuffix(WithSuffix(path, ""), "json")

UserPaths == {<<"cap">>, <<"cap", "v1", "npz">>, <<"run", "json">>}
FilePaths == {NpzPath(q) : q \in UserPaths} \cup {JsonPath(q) : q \in UserPaths}

NoFile == [exists |-> FALSE, data |-> <<>>]
File(data) == [exists |-> TRUE, data |-> data]

RECURSIVE SeqMin(_)
SeqMin(q) ==
    IF Len(q) = 1 THEN q[1] ELSE Min(Head(q), SeqMin(Tail(q)))
RECURSIVE SeqMax(_)
SeqMax(q) ==
    IF Len(q) = 1 THEN q[1] ELSE Max(Head(q), SeqMax(Tail(q)))

\* lines 124-125: (min, max) of an array, (0, 0) for an empty one
RangeOf(q) ==
    IF Len(q) > 0 THEN PyTuple(<<PyFloatV(SeqMin(q)), PyFloatV(SeqMax(q))>>)
    ELSE PyTuple(<<PyIntV(0), PyIntV(0)>>)

\* lines 120-126
JsonData(time_array, voltage_array, preamble, metadata) ==
    PyDict([preamble |-> preamble,
            metadata |-> IF Truthy(metadata) THEN metadata ELSE EmptyDict,
            num_samples |-> PyIntV(Len(voltage_array)),
            time_range_ms |-> RangeOf(time_array),
            voltage_range_v |-> RangeOf(voltage_array)])

\* lines 113-117: the array store holds both arrays as given
NpzData(time_array, voltage_array) == <<"npz", time_array, voltage_array>>

\* captures handed to save_waveform_capture: n samples, the preamble of
\* capture_waveform, and metadata absent, empty or filled
SaveArrays ==
    {[time_array |-> [i \in 1..n |-> 10 * i + n],
      voltage_array |-> [i \in 1..n |-> n - 3 * i]] : n \in 0..MaxSaveLen}
SavePreamble ==
    PyDict([points |-> PyIntV(1200), x_increment |-> PyFloatV(2),
            x_origin |-> PyFloatV(-15), y_increment |-> PyFloatV(4),
            y_origin |-> PyFloatV(0), y_reference |-> PyIntV(127)])
SaveMetadata ==
    {PyNone, EmptyDict,
     PyDict([channel |-> PyStr("CHAN1"), gain |-> PyIntV(2),
             frequency |-> PyFloatV(1000), note |-> PyNone])}
Captures ==
    {[time_array |-> a.time_array, voltage_array |-> a.voltage_array,
      preamble |-> SavePreamble, metadata |-> md] :
        a \in SaveArrays, md \in SaveMetadata}

NoCapture ==
    [time_array |-> <<>>, voltage_array |-> <<>>, preamble |-> PyNone,
     metadata |-> PyNone]
NoSave == [valid |-> FALSE, path |-> <<>>, capture |-> NoCapture]
NoLoad ==
    [status |-> "none", path |-> <<>>, named |-> {}, time_array |-> <<>>,
     voltage_array |-> <<>>, preamble |-> PyNone, metadata |-> PyNone,
     num_samples |-> PyNone, voltage_range_v |-> PyNone,
     time_range_ms |-> PyNone]

\* save_waveform_capture(path, c): the array store is written (line 113),
\* then the sidecar (lines 128-129).  Either write can fail with an IOError,
\* which leaves the function with what was written so far.
SaveWaveformCapture(path, c, outcome) ==
    /\ fs' = CASE outcome = "store_fails" -> fs
               [] outcome = "sidecar_fails" ->
                    [fs EXCEPT ![NpzPath(path)] =
                        File(NpzData(c.time_array, c.voltage_array))]
               [] OTHER ->
                    [fs EXCEPT
                        ![NpzPath(path)] =
                            File(NpzData(c.time_array, c.voltage_array)),
                        ![JsonPath(path)] =
                            File(JsonDump(JsonData(c.time_array, c.voltage_array,
                                                   c.preamble, c.metadata)))]
    /\ saved' = IF outcome = "ok"
                THEN [valid |-> TRUE, path |-> path, capture |-> c]
                ELSE NoSave
    /\ loaded' = NoLoad
    /\ UNCHANGED <<captureVars, calib>>

Save ==
    \E path \in UserPaths, c \in Captures,
       outcome \in {"ok", "store_fails", "sidecar_fails"} :
        SaveWaveformCapture(path, c, outcome)

\* LoadedCapture with the two array keys exchanged
LoadedCaptureSwapped(path, npz, json) ==
    [status |-> "ok", path |-> path, named |-> {},
     time_array |-> npz[3],
     voltage_array |-> npz[2],
     preamble |-> json[2].preamble,
     metadata |-> json[2].metadata,
     num_samples |-> json[2].num_samples,
     voltage_range_v |-> json[2].voltage_range_v,
     time_range_ms |-> json[2].time_range_ms]

\* lines 174-182: the dict returned from both files
LoadedCapture(path, npz, json) ==
    [status |-> "ok", path |-> path, named |-> {},
     time_array |-> npz[2],
     voltage_array |-> npz[3],
     preamble |-> json[2].preamble,
     metadata |-> json[2].metadata,
     num_samples |-> json[2].num_samples,
     voltage_range_v |-> json[2].voltage_range_v,
     time_range_ms |-> json[2].time_range_ms]

\* lines 156-182
LoadWaveformCapture(path) ==
    IF ~fs[NpzPath(path)].exists \/ ~fs[JsonPath(path)].exists
    THEN [NoLoad EXCEPT !.status = "FileNotFoundError", !.path = path,
                        !.named = {NpzPath(path), JsonPath(path)}]
    ELSE LoadedCapture(path, fs[NpzPath(path)].data,
                       JsonLoad(fs[JsonPath(path)].data))

Load ==
    /\ \E path \in UserPaths : loaded' = LoadWaveformCapture(path)
    /\ UNCHANGED <<captureVars, calib, fs, saved>>

\* the user deletes one of the files
RemoveFile ==
    /\ \E f \in FilePaths :
          /\ fs[f].exists
          /\ fs' = [fs EXCEPT ![f] = NoFile]
    /\ saved' = NoSave
    /\ loaded' = NoLoad
    /\ UNCHANGED <<captureVars, calib>>

InitPersist ==
    /\ CaptureIdle
    /\ calib = <<>>
    /\ fs = [f \in FilePaths |-> NoFile]
    /\ saved = NoSave
    /\ loaded = NoLoad

NextPersist == Save \/ Load \/ RemoveFile

SpecPersist == InitPersist /\ [][NextPersist]_vars

-----------------------------------------------------------------------------
(* Properties of one capture_waveform call (specification Spec) *)

Ended(p) == pc[p] \in {"returned", "raised"}
HeaderWasRead(p) == pc[p] \in {"parse", "payload", "calibrate", "returned"}
ReadOps == {i \in 1..Len(ops[1]) : ops[1][i].op = "read_raw"}
DataQueryOps == {i \in 1..Len(ops[1]) : ops[1][i].cmd = ":WAV:DATA?"}

\* C1: when a call has ended, by return or by any exception, the timeout in
\* effect is the one that was in effect when the call started.
C1_TimeoutRestored == Ended(1) => timeout = entryTimeout[1]

\* a call that extended the timeout and then failed in the payload read
C1_Witness ==
    /\ pc[1] = "raised"
    /\ loc[1].exc = "VisaIOError"
    /\ Cardinality(ReadOps) = 2
    /\ timeout = entryTimeout[1]
    /\ timeout # ExtendedTimeout

\* C2: every returned capture has as many time and voltage samples as the
\* payload length decoded from the header.
C2_CaptureHasDeclaredLength ==
    pc[1] = "returned" =>
        /\ Len(loc[1].result.y_data) = loc[1].data_length
        /\ Len(loc[1].result.time_axis) = loc[1].data_length

\* what a well-formed reply declares
DeclaredDigits(b) == b[2] - 48
DeclaredLength(b) == DigitsVal(SubSeq(b, 3, 2 + DeclaredDigits(b)))
DeclaredPayload(b) ==
    SubSeq(b, 3 + DeclaredDigits(b), 2 + DeclaredDigits(b) + DeclaredLength(b))

\* C3: for a well-formed reply with digit count 1..9 whose header read was
\* delivered in full, the header consumed is 2 + digit_count bytes, and a
\* payload read delivered in full yields exactly the declared payload.
C3_HeaderHonorsDigitCount ==
    ( /\ HeaderWasRead(1)
      /\ blockReply \in WellFormedBlocks
      /\ DeclaredDigits(blockReply) \in 1..9
      /\ Len(loc[1].header) = Min(HeaderSize, Len(blockReply)) )
    => /\ Len(loc[1].header) = 2 + DeclaredDigits(blockReply)
       /\ pc[1] = "returned" /\ Len(loc[1].raw_bytes) = loc[1].data_length
            => loc[1].raw_bytes = DeclaredPayload(blockReply)

\* the first byte is not '#', or the length region holds a non-digit
HeaderInvalid(h) ==
    \/ Slice(h, 1, 1) # <<35>>
    \/ /\ Len(h) >= 2
       /\ IsDigit(h[2])
       /\ \E i \in 3..Min(Len(h), 2 + (h[2] - 48)) : ~IsDigit(h[i])

\* C4: once an invalid header has been examined, the call is failing or has
\* failed with an error, no payload read has been issued and nothing is
\* returned.
C4_InvalidHeaderRejected ==
    ( /\ pc[1] \in {"payload", "calibrate", "finally", "returned", "raised"}
      /\ Cardinality(ReadOps) >= 1
      /\ loc[1].exc # "VisaIOError"
      /\ HeaderInvalid(loc[1].header) )
    => /\ pc[1] \in {"finally", "raised"}
       /\ loc[1].exc = "ValueError"
       /\ Cardinality(ReadOps) = 1

\* fewer than 10 fields, or a required field that does not convert
FieldsMalformed(fields) ==
    \/ Len(fields) < 10
    \/ \E i \in {3, 10} : ~PyInt(fields[i]).ok
    \/ \E i \in {5, 6, 8, 9} : ~PyFloat(fields[i]).ok
PreambleMalformed(reply) == FieldsMalformed(Split(reply))

\* C5: with a malformed preamble reply the call fails at the preamble: the
\* data query is never written, no raw read is issued, the timeout is never
\* changed, and no preamble value or result is produced.
C5_MalformedPreambleAborts ==
    PreambleMalformed(preambleReply) =>
        /\ pc[1] \in {"start", "mode", "form", "pre", "raised"}
        /\ pc[1] = "raised" => loc[1].exc \in {"IndexError", "ValueError"}
        /\ DataQueryOps = {}
        /\ ReadOps = {}
        /\ pc[1] # "start" => timeout = entryTimeout[1]
        /\ loc[1].pre = NoPreamble
        /\ loc[1].result = NoResult

\* a reply with nine fields only, after the call has failed on it
C5_Witness ==
    /\ Len(Split(preambleReply)) = 9
    /\ pc[1] = "raised"
    /\ loc[1].exc = "IndexError"
    /\ Len(ops[1]) = 4

\* C6: a call that returned issued exactly the seven transport operations in
\* order, header and payload by two reads; and at no time has a read been
\* issued before the data-query write.
C6_OperationOrder ==
    /\ pc[1] = "returned" =>
          ops[1] = << Op("write", ":WAV:SOUR", 0),
                      Op("write", ":WAV:MODE NORM", 0),
                      Op("write", ":WAV:FORM BYTE", 0),
                      Op("query", ":WAV:PRE?", 0),
                      Op("write", ":WAV:DATA?", 0),
                      Op("read_raw", "", HeaderSize),
                      Op("read_raw", "", loc[1].data_length) >>
    /\ \A i \in ReadOps :
          \E j \in 1..(i - 1) : ops[1][j].op = "write" /\ ops[1][j].cmd = ":WAV:DATA?"

\* a returned capture of two samples
C6_Witness ==
    /\ pc[1] = "returned"
    /\ Len(loc[1].result.y_data) = 2
    /\ Len(ops[1]) = 7

-----------------------------------------------------------------------------
(* Properties of two interleaved calls (specification SpecConc) *)

\* C10 as stated: once both interleaved calls have ended, the timeout is
\* the one in effect before the first of them started.
C10_InterleavedRestore == (Ended(1) /\ Ended(2)) => timeout = timeout0

\* a call saved the timeout (line 35) while the other call's extended value
\* was in place; original_timeout is 0 until line 35 has run
SavedExtended(p) == loc[p].original_timeout \notin {0, timeout0}

\* C10 amended: once both interleaved calls have ended, the timeout is the
\* one in effect before the first of them started, provided neither call
\* saved the timeout while the other call's extended value was in place.
C10_RestoreUnlessSavedExtended ==
    (Ended(1) /\ Ended(2) /\ ~SavedExtended(1) /\ ~SavedExtended(2))
        => timeout = timeout0

\* both calls saved the original timeout and both extended it; call 1 read
\* its header after call 2 had queued a second reply, so the calls overlapped
C10_Witness ==
    /\ Ended(1) /\ Ended(2)
    /\ loc[1].original_timeout = timeout0
    /\ loc[2].original_timeout = timeout0
    /\ Len(loc[1].header) > Len(blockReply)
    /\ timeout = timeout0

-----------------------------------------------------------------------------
(* Properties of persistence (specification SpecPersist) *)

\* a load of the path of the last save, with nothing done to the files
\* in between
LoadedAfterSave ==
    saved.valid /\ loaded.status # "none" /\ loaded.path = saved.path

\* C7 as stated: a load after a successful save of capture c to the same
\* path returns c's arrays, preamble and metadata, absent metadata included.
C7_RoundTrip ==
    LoadedAfterSave =>
        /\ loaded.status = "ok"
        /\ loaded.time_array = saved.capture.time_array
        /\ loaded.voltage_array = saved.capture.voltage_array
        /\ loaded.preamble = saved.capture.preamble
        /\ loaded.metadata = saved.capture.metadata

\* C7 amended: a load after a successful save of capture c to the same path
\* returns c's arrays, preamble and metadata, except that absent metadata
\* comes back as the empty mapping.
C7_RoundTripAbsentAsEmpty ==
    LoadedAfterSave =>
        /\ loaded.status = "ok"
        /\ loaded.time_array = saved.capture.time_array
        /\ loaded.voltage_array = saved.capture.voltage_array
        /\ loaded.preamble = saved.capture.preamble
        /\ loaded.metadata = IF saved.capture.metadata = PyNone
                             THEN EmptyDict ELSE saved.capture.metadata

\* a two-sample capture without metadata, saved and loaded back
C7_Witness ==
    /\ LoadedAfterSave
    /\ saved.capture.metadata = PyNone
    /\ Len(saved.capture.time_array) = 2
    /\ loaded.metadata = EmptyDict
    /\ loaded.voltage_array = saved.capture.voltage_array

\* C8: a load returns a capture only when both files exist and the sidecar's
\* num_samples is the length of the stored arrays; with a file missing it
\* fails with a not-found error naming both paths.
C8_LoadNeedsAgreeingArtifacts ==
    /\ loaded.status = "ok" =>
          /\ fs[NpzPath(loaded.path)].exists
          /\ fs[JsonPath(loaded.path)].exists
          /\ loaded.num_samples = PyIntV(Len(loaded.voltage_array))
          /\ loaded.num_samples = PyIntV(Len(loaded.time_array))
    /\ ( /\ loaded.status # "none"
         /\ ~fs[NpzPath(loaded.path)].exists \/ ~fs[JsonPath(loaded.path)].exists )
       => /\ loaded.status = "FileNotFoundError"
          /\ loaded.named = {NpzPath(loaded.path), JsonPath(loaded.path)}

-----------------------------------------------------------------------------
(* Properties of calibration (specification SpecCalib) *)

NumSum(y) == Sum([i \in 1..Len(y) |-> y[i].num])

\* C9: the voltages of a byte sequence equal those of the sequence shifted
\* by a constant and those computed under another y_reference and y_origin;
\* each is (byte - mean) * y_increment, and together they sum to zero.
C9_ShiftInvariantMeanCentering ==
    calib.done =>
        /\ Len(calib.y) = Len(calib.bytes)
        /\ calib.yShifted = calib.y
        /\ calib.yOther = calib.y
        /\ \A i \in 1..Len(calib.y) :
              calib.y[i].num * Len(calib.bytes) * calib.pre.y_increment.den
                = (Len(calib.bytes) * calib.bytes[i] - Sum(calib.bytes))
                    * calib.pre.y_increment.num * calib.y[i].den
        /\ \A i, j \in 1..Len(calib.y) : calib.y[i].den = calib.y[j].den
        /\ NumSum(calib.y) = 0

\* three unequal bytes shifted by 128, with non-zero voltages
C9_Witness ==
    /\ calib.done
    /\ calib.bytes = <<0, 1, 127>>
    /\ calib.shift = 128
    /\ calib.pre.y_reference # calib.other.y_reference
    /\ calib.y[1].num # 0
    /\ calib.yShifted = calib.y

====
